---- MODULE Spec2Model ----
(***************************************************************************)
(* Model of evo_researcher/benchmark/benchmark.py: the Benchmarker         *)
(* (construction, run_agents with one ThreadPoolExecutor per agent, the    *)
(* predictions cache and its persistence) and main().                      *)
(*                                                                         *)
(* Probabilities are integers in hundredths (50 is 0.5).  An optional      *)
(* value is a sequence of length 0 (None) or 1.                            *)
(***************************************************************************)
EXTENDS Integers, Sequences, FiniteSets, TLC

\* ------------------------------------------------------------------ bounds
NumAgents == 2          \* agents registered with the Benchmarker
MaxMarkets == 2         \* length of the market list, and number of questions
MaxWorkersBound == 2    \* largest max_workers an agent declares

None == <<>>
Some(x) == <<x>>
SeqsUpTo(S, n) == UNION {[1..k -> S] : k \in 0..n}

Questions == 1..MaxMarkets
AgentNames == 1..NumAgents

\* ------------------------------------------------------------------ markets
\* Market(question, url, p_yes); the url plays no part in any decision.
Market(q, p) == [question |-> q, p_yes |-> p]

\* p_yes of the i-th market returned by the market source.
SourcePYes(i) == (40 * i) % 100

\* get_markets: the list the market source returns, duplicates allowed.
get_markets(qs) == [i \in 1..Len(qs) |-> Market(qs[i], SourcePYes(i))]

\* A dict built from (key, value) pairs keeps the position of a key's first
\* insertion and the value of its last one.
RECURSIVE DictValues(_, _)
DictValues(ms, seen) ==
    IF ms = <<>> THEN <<>>
    ELSE LET q == Head(ms).question
             last == CHOOSE i \in 1..Len(ms) :
                        /\ ms[i].question = q
                        /\ \A j \in (i+1)..Len(ms) : ms[j].question # q
         IN IF q \in seen THEN DictValues(Tail(ms), seen)
            ELSE <<ms[last]>> \o DictValues(Tail(ms), seen \cup {q})

\* Variant: the market list is used as the source returned it.
NoDedup(ms) == ms

\* main: list(({m.question: m for m in markets}.values()))
markets_deduplicated(ms) == DictValues(ms, {})

\* ------------------------------------------------------------------ predictions
OutcomePrediction(p, c, u) == [p_yes |-> p, confidence |-> c, info_utility |-> u]

\* Prediction; src is a label naming the evaluation (agent_name, question)
\* that produced the record, "old" for one found in the cache file.
Prediction(ev, op, cost, time, src) ==
    [evaluation |-> ev, outcome_prediction |-> op, cost |-> cost, time |-> time, src |-> src]

is_answered(p) == p.outcome_prediction # None

\* The record a cache file written by an earlier program run holds for a key.
StoredPrediction(name, q) ==
    Prediction(Some([is_predictable |-> TRUE]),
               Some(OutcomePrediction(50, 60, Some(40))), Some(2), Some(3), <<"old", name, q>>)

Answer(name, q) ==
    Prediction(Some([is_predictable |-> TRUE]),
               Some(OutcomePrediction((30 * name + 20 * q) % 100, 70, None)),
               None, None, <<"new", name, q>>)

Skip(name, q) ==
    Prediction(Some([is_predictable |-> FALSE]), None, None, None, <<"new", name, q>>)

\* What agent.evaluate_research_predict may return for a question: an answer,
\* or a question judged not predictable.  The first question may go either
\* way; for the others agent and question decide.
AgentOutputs(name, q) ==
    IF q = 1 THEN {Answer(name, q), Skip(name, q)}
    ELSE IF (name + q) % 2 = 0 THEN {Answer(name, q)} ELSE {Skip(name, q)}

\* ------------------------------------------------------------------ cache
\* PredictionsCache: a mapping from (agent_name, question) to Prediction.
EmptyCache == <<>>

has_market(cache, name, q) == <<name, q>> \in DOMAIN cache

CachePut(cache, name, q, p) ==
    [k \in (DOMAIN cache) \cup {<<name, q>>} |-> IF k = <<name, q>> THEN p ELSE cache[k]]

\* PredictionsCache.save(path): the file holds a snapshot of the whole cache.
save(cache) == Some(cache)

\* The caches an earlier program run may have left in the cache file:
\* one written for some set of agents and some set of questions, or one in
\* which the first agent has every question and the others only some.
StoredCaches ==
    { [k \in A \X Q |-> StoredPrediction(k[1], k[2])] :
        A \in SUBSET AgentNames, Q \in SUBSET Questions }
    \cup
    { [k \in ({1} \X Questions) \cup (AgentNames \X Q) |-> StoredPrediction(k[1], k[2])] :
        Q \in SUBSET Questions }

\* ------------------------------------------------------------------ metrics
\* The result of a metric function: a float n/d in lowest terms, None, the
\* correlation coefficient of two lists, or the exception the function raised.
RECURSIVE GCD(_, _)
GCD(a, b) == IF b = 0 THEN a ELSE GCD(b, a % b)
Abs(x) == IF x < 0 THEN -x ELSE x

Null == [kind |-> "None", num |-> 0, den |-> 1, args |-> <<>>]
Float(n, d) ==
    LET g == GCD(Abs(n), d)
    IN [kind |-> "float", num |-> n \div g, den |-> d \div g, args |-> <<>>]
CorrCoef(xs, ys) == [kind |-> "corrcoef", num |-> 0, den |-> 1, args |-> <<xs, ys>>]
Raises(e) == [kind |-> e, num |-> 0, den |-> 1, args |-> <<>>]

RECURSIVE Sum(_)
Sum(xs) == IF xs = <<>> THEN 0 ELSE Head(xs) + Sum(Tail(xs))

Min(a, b) == IF a < b THEN a ELSE b
Zip(ps, ms) == [i \in 1..Min(Len(ps), Len(ms)) |-> <<ps[i], ms[i]>>]
Count(xs, P(_)) == Len(SelectSeq(xs, P))

\* The (prediction, market) pairs whose prediction is answered, in order.
filter_predictions_for_answered(ps, ms) ==
    SelectSeq(Zip(ps, ms), LAMBDA pm : is_answered(pm[1]))

PYes(p) == p.outcome_prediction[1].p_yes
Confidence(p) == p.outcome_prediction[1].confidence

_compute_mse(ps, ms) ==
    LET pairs == filter_predictions_for_answered(ps, ms)
    IN IF pairs = <<>> THEN Null
       ELSE Float(Sum([i \in 1..Len(pairs) |->
                         (PYes(pairs[i][1]) - pairs[i][2].p_yes) * (PYes(pairs[i][1]) - pairs[i][2].p_yes)]),
                  Len(pairs))

\* Variant: a mean over no answered prediction is 0.
MeanConfidenceOrZero(ps, ms) ==
    LET pairs == filter_predictions_for_answered(ps, ms)
    IN IF pairs = <<>> THEN Float(0, 1)
       ELSE Float(Sum([i \in 1..Len(pairs) |-> Confidence(pairs[i][1])]), Len(pairs))

_compute_mean_confidence(ps, ms) ==
    LET pairs == filter_predictions_for_answered(ps, ms)
    IN IF pairs = <<>> THEN Null
       ELSE Float(Sum([i \in 1..Len(pairs) |-> Confidence(pairs[i][1])]), Len(pairs))

_compute_mean_info_utility(ps, ms) ==
    LET pairs == filter_predictions_for_answered(ps, ms)
        with == SelectSeq(pairs, LAMBDA pm : pm[1].outcome_prediction[1].info_utility # None)
    IN IF with = <<>> THEN Null
       ELSE Float(Sum([i \in 1..Len(with) |-> with[i][1].outcome_prediction[1].info_utility[1]]),
                  Len(with))

_compute_percentage_within_range(ps, ms, tolerance) ==
    LET pairs == filter_predictions_for_answered(ps, ms)
    IN IF pairs = <<>> THEN Null
       ELSE Float(100 * Count(pairs, LAMBDA pm : Abs(PYes(pm[1]) - pm[2].p_yes) <= tolerance),
                  Len(pairs))

_compute_correct_outcome_percentage(ps, ms) ==
    LET pairs == filter_predictions_for_answered(ps, ms)
    IN IF pairs = <<>> THEN Null
       ELSE Float(100 * Count(pairs, LAMBDA pm : \/ PYes(pm[1]) > 50 /\ pm[2].p_yes > 50
                                                 \/ PYes(pm[1]) < 50 /\ pm[2].p_yes < 50),
                  Len(pairs))

_compute_confidence_p_yes_error_correlation(ps, ms) ==
    LET pairs == filter_predictions_for_answered(ps, ms)
    IN IF pairs = <<>> THEN Null
       ELSE CorrCoef([i \in 1..Len(pairs) |-> Confidence(pairs[i][1])],
                     [i \in 1..Len(pairs) |-> Abs(PYes(pairs[i][1]) - pairs[i][2].p_yes)])

\* `if p.cost`: a cost that is None or 0 is left out.
_compute_mean_cost(ps, ms) ==
    LET costs == SelectSeq(ps, LAMBDA p : p.cost # None /\ p.cost[1] # 0)
    IN IF costs # <<>> THEN Float(Sum([i \in 1..Len(costs) |-> costs[i].cost[1]]), Len(costs))
       ELSE Null

_compute_mean_time(ps, ms) ==
    LET times == SelectSeq(ps, LAMBDA p : p.time # None /\ p.time[1] # 0)
    IN IF times # <<>> THEN Float(Sum([i \in 1..Len(times) |-> times[i].time[1]]), Len(times))
       ELSE Null

_compute_ratio_evaluated_as_answerable(ps, ms) ==
    IF Len(ps) = 0 THEN Raises("ZeroDivisionError")
    ELSE Float(Count(ps, LAMBDA p : p.evaluation # None /\ p.evaluation[1].is_predictable), Len(ps))

_compute_ratio_answered(ps, ms) ==
    IF Len(ps) = 0 THEN Raises("ZeroDivisionError")
    ELSE Float(Count(ps, LAMBDA p : is_answered(p)), Len(ps))

MetricNames ==
    {"MSE for p_yes", "Mean confidence", "% within +-0.05", "% within +-0.1", "% within +-0.2",
     "% correct outcome", "confidence/p_yes error correlation", "Mean info_utility",
     "Proportion answerable", "Proportion answered", "Mean cost ($)", "Mean time (s)"}

\* predefined_metric_fns: the function registered under each name.
predefined_metric_fns(name, ps, ms) ==
    CASE name = "MSE for p_yes" -> _compute_mse(ps, ms)
      [] name = "Mean confidence" -> _compute_mean_confidence(ps, ms)
      [] name = "% within +-0.05" -> _compute_percentage_within_range(ps, ms, 5)
      [] name = "% within +-0.1" -> _compute_percentage_within_range(ps, ms, 10)
      [] name = "% within +-0.2" -> _compute_percentage_within_range(ps, ms, 20)
      [] name = "% correct outcome" -> _compute_correct_outcome_percentage(ps, ms)
      [] name = "confidence/p_yes error correlation" -> _compute_confidence_p_yes_error_correlation(ps, ms)
      [] name = "Mean info_utility" -> _compute_mean_info_utility(ps, ms)
      [] name = "Proportion answerable" -> _compute_ratio_evaluated_as_answerable(ps, ms)
      [] name = "Proportion answered" -> _compute_ratio_answered(ps, ms)
      [] name = "Mean cost ($)" -> _compute_mean_cost(ps, ms)
      [] name = "Mean time (s)" -> _compute_mean_time(ps, ms)

\* A metric function a caller passes in metric_fns: the number of predictions.
caller_metric(ps, ms) == Float(Len(ps), 1)

\* The metric_fns arguments of a construction: none, one under the name of a
\* built-in metric, one under a new name, or both.
CallerMetricFns ==
    { [n \in N |-> "caller"] : N \in SUBSET {"Mean confidence", "Number of predictions"} }

\* Lines 60-82: self.metric_fns = metric_fns, then
\* self.metric_fns.update(predefined_metric_fns).
RegisterMetricFns(arg) ==
    [n \in (DOMAIN arg) \cup MetricNames |-> IF n \in MetricNames THEN "predefined" ELSE arg[n]]

\* fn(ordered_predictions, self.markets) for the function registered as name.
apply_metric(fns, name, ps, ms) ==
    IF fns[name] = "predefined" THEN predefined_metric_fns(name, ps, ms) ELSE caller_metric(ps, ms)

\* PredictionsCache.get_prediction fails for a key the cache does not hold.
Missing(cache, agent, ms) ==
    \E i \in 1..Len(ms) : ~has_market(cache, agent.agent_name, ms[i].question)

\* [self.get_prediction(question=market.question, agent_name=...) for market in self.markets]
ordered_predictions(cache, agent, ms) ==
    [i \in 1..Len(ms) |-> cache[<<agent.agent_name, ms[i].question>>]]

\* Variant: a key the cache does not hold is skipped.
MetricsSkipMissing(fns, cache, agents, ms) ==
    LET held(a) == SelectSeq(ms, LAMBDA m : has_market(cache, agents[a].agent_name, m.question))
    IN [raised |-> None,
        table |-> [name \in (DOMAIN fns) \cup {"Agents"} |->
                     IF name = "Agents"
                     THEN [a \in 1..Len(agents) |-> agents[a].agent_name]
                     ELSE [a \in 1..Len(agents) |->
                             apply_metric(fns, name,
                                          ordered_predictions(cache, agents[a], held(a)), held(a))]]]

\* compute_metrics: for every metric and agent, the metric of the agent's
\* predictions in market order; the first exception raised ends it.
compute_metrics(fns, cache, agents, ms) ==
    IF \E a \in 1..Len(agents) : Missing(cache, agents[a], ms)
    THEN [raised |-> Some("NotFound"), table |-> <<>>]
    ELSE LET table == [name \in DOMAIN fns |->
                         [a \in 1..Len(agents) |->
                            apply_metric(fns, name, ordered_predictions(cache, agents[a], ms), ms)]]
             errors == {table[name][a].kind : name \in DOMAIN fns, a \in 1..Len(agents)}
                          \ {"None", "float", "corrcoef"}
         IN IF errors # {}
            THEN [raised |-> Some(CHOOSE e \in errors : TRUE), table |-> <<>>]
            ELSE [raised |-> None,
                  table |-> [name \in (DOMAIN fns) \cup {"Agents"} |->
                               IF name = "Agents"
                               THEN [a \in 1..Len(agents) |-> agents[a].agent_name]
                               ELSE table[name]]]

\* ------------------------------------------------------------------ summaries
\* A cell of an agent's column in the markets summary: a number, one of the
\* labels, or the exception its computation raises.
Number(n) == [kind |-> "number", value |-> <<n>>]
Label(l) == [kind |-> l, value |-> <<>>]

\* Variant: an outcome is rendered as its p_yes whatever the evaluation says.
OutcomeFirst(p) ==
    IF p.outcome_prediction # None THEN Number(PYes(p))
    ELSE IF p.evaluation = None THEN Label("N/A")
    ELSE IF ~p.evaluation[1].is_predictable THEN Label("S")
    ELSE Label("F")

\* Lines 278-288: the conditional expression that renders one prediction.
summary_label(p) ==
    LET evaluated == p.evaluation # None
        predictable == evaluated /\ p.evaluation[1].is_predictable
        outcome == p.outcome_prediction # None
    IN IF evaluated /\ predictable /\ outcome THEN Number(PYes(p))
       ELSE IF ~evaluated /\ ~outcome THEN Label("N/A")
       ELSE IF evaluated /\ ~predictable THEN Label("S")
       ELSE IF evaluated /\ predictable /\ ~outcome THEN Label("F")
       ELSE Label("should_not_happen")

\* get_markets_summary: agent by agent, the agent's predictions are fetched
\* for every question, then rendered; the first exception raised ends it.
get_markets_summary(cache, agents, ms) ==
    LET row(a) == ordered_predictions(cache, agents[a], ms)
        unrendered(a) == \E i \in 1..Len(ms) : summary_label(row(a)[i]).kind = "should_not_happen"
        failing == {a \in 1..Len(agents) : Missing(cache, agents[a], ms) \/ unrendered(a)}
    IN IF failing # {}
       THEN LET a == CHOOSE x \in failing : \A y \in failing : x <= y
            IN [raised |-> Some(IF Missing(cache, agents[a], ms)
                                THEN "NotFound" ELSE "should_not_happen"),
                table |-> <<>>]
       ELSE [raised |-> None,
             table |-> [questions |-> [i \in 1..Len(ms) |-> ms[i].question],
                        columns |-> [a \in 1..Len(agents) |->
                                       [i \in 1..Len(ms) |-> summary_label(row(a)[i])]],
                        reference |-> [i \in 1..Len(ms) |-> ms[i].p_yes]]]

\* Lines 298-300; probabilities are held in hundredths, so the threshold of
\* 0.5 is 50.
bet_units == 10
receive_shares == 20
buy_yes_threshold == 50

\* Variant: the yes side is bought from the threshold on.
ReturnsYesAtThreshold(p, m) ==
    IF ~is_answered(p) THEN Null
    ELSE LET yes_shares == IF PYes(p) >= buy_yes_threshold THEN receive_shares ELSE 0
             no_shares == IF PYes(p) < buy_yes_threshold THEN receive_shares ELSE 0
             pct == yes_shares * m.p_yes + no_shares * (100 - m.p_yes) - bet_units * 100
         IN Float(100 * pct, 100 * bet_units)

\* calculate_expected_returns; expected_returns_pct is held in hundredths.
calculate_expected_returns(p, m) ==
    IF ~is_answered(p) THEN Null
    ELSE LET yes_shares == IF PYes(p) > buy_yes_threshold THEN receive_shares ELSE 0
             no_shares == IF PYes(p) <= buy_yes_threshold THEN receive_shares ELSE 0
             pct == yes_shares * m.p_yes + no_shares * (100 - m.p_yes) - bet_units * 100
         IN Float(100 * pct, 100 * bet_units)

NaN == [kind |-> "nan", num |-> 0, den |-> 1, args |-> <<>>]
AddFloat(x, y) == Float(x.num * y.den + y.num * x.den, x.den * y.den)
LessFloat(x, y) == x.num * y.den < y.num * x.den

RECURSIVE SumFloats(_)
SumFloats(xs) == IF xs = <<>> THEN Float(0, 1) ELSE AddFloat(Head(xs), SumFloats(Tail(xs)))

RECURSIVE Sorted(_)
Sorted(xs) ==
    IF xs = <<>> THEN <<>>
    ELSE LET rest == Sorted(Tail(xs))
             below == SelectSeq(rest, LAMBDA y : LessFloat(y, Head(xs)))
             above == SelectSeq(rest, LAMBDA y : ~LessFloat(y, Head(xs)))
         IN below \o <<Head(xs)>> \o above

\* np.mean, np.median and np.sum of a list of floats; of the empty list the
\* first two are nan and the sum is 0.
NpMean(xs) ==
    IF xs = <<>> THEN NaN ELSE LET t == SumFloats(xs) IN Float(t.num, t.den * Len(xs))
NpMedian(xs) ==
    IF xs = <<>> THEN NaN
    ELSE LET o == Sorted(xs)
             n == Len(xs)
         IN IF n % 2 = 1 THEN o[(n + 1) \div 2]
            ELSE LET t == AddFloat(o[n \div 2], o[n \div 2 + 1]) IN Float(t.num, 2 * t.den)
NpSum(xs) == SumFloats(xs)

\* compute_expected_returns_summary: per agent the mean, median and total of
\* the returns of its answered predictions, then the per-market table.
compute_expected_returns_summary(cache, agents, ms) ==
    IF \E a \in 1..Len(agents) : Missing(cache, agents[a], ms)
    THEN [raised |-> Some("NotFound"), overall |-> <<>>, per_market |-> <<>>]
    ELSE LET row(a) == ordered_predictions(cache, agents[a], ms)
             answered(a) == SelectSeq(Zip(row(a), ms), LAMBDA pm : is_answered(pm[1]))
             expected_returns(a) ==
                 [i \in 1..Len(answered(a)) |->
                    calculate_expected_returns(answered(a)[i][1], answered(a)[i][2])]
         IN [raised |-> None,
             overall |-> [a \in 1..Len(agents) |->
                            [agent |-> agents[a].agent_name,
                             mean |-> NpMean(expected_returns(a)),
                             median |-> NpMedian(expected_returns(a)),
                             total |-> NpSum(expected_returns(a))]],
             per_market |-> [i \in 1..Len(ms) |->
                               [question |-> ms[i].question,
                                returns |-> [a \in 1..Len(agents) |->
                                               calculate_expected_returns(row(a)[i], ms[i])]]]]

\* ------------------------------------------------------------------ state
VARIABLES
    entry,              \* "main": built by main(); "direct": Benchmarker built by a caller
    input_markets,      \* the markets argument of Benchmarker.__init__
    registered_agents,  \* self.registered_agents
    cache_path,         \* self.cache_path: TRUE when a path is configured
    only_cached,        \* self.only_cached
    metric_fns_arg,     \* the metric_fns argument of Benchmarker.__init__, as passed
    metric_fns,         \* self.metric_fns: name -> "predefined" or the caller's function
    report,             \* what the last reporting call returned or raised, if any
    disk,               \* the cache file: None, or Some(cache)
    predictions,        \* self.predictions
    markets,            \* self.markets, the working market set
    phase,              \* INIT, FILTERING, EVALUATING, DONE, FAILED, CONFIG_ERROR
    agentIdx,           \* position of run_agents' loop over registered_agents
    mainpc,             \* position of the main thread inside run_agents
    tasks,              \* the futures submitted in this run, in submission order
    raised,             \* the exception that left the program: None or Some(..)
    second,             \* TRUE in the second run against the same cache
    \* history, read by no action:
    turnCache,          \* per agent whose turn began, the keys cached at that moment
    lastAdded,          \* the key of the most recent add_prediction, if any
    inFlightAtRaise,    \* the futures not yet finished when the main thread raised
    first               \* cache and metrics at the end of the first run

vars == <<entry, input_markets, registered_agents, cache_path, only_cached,
          metric_fns_arg, metric_fns, report, disk, predictions, markets, phase, agentIdx, mainpc, tasks, raised, second,
          turnCache, lastAdded, inFlightAtRaise, first>>

history == <<turnCache, lastAdded, inFlightAtRaise, first>>

config == <<entry, input_markets, registered_agents, cache_path, only_cached, metric_fns_arg>>

\* The question lists the market source returns, up to renaming of the
\* questions: a question appears for the first time after all smaller ones.
QuestionLists ==
    { qs \in SeqsUpTo(Questions, MaxMarkets) :
        \A i \in 1..Len(qs) : qs[i] = 1 \/ \E j \in 1..(i-1) : qs[j] = qs[i] - 1 }

HasDuplicates(qs) == \E i, j \in 1..Len(qs) : i # j /\ qs[i] = qs[j]

Agent(name, w) == [agent_name |-> name, max_workers |-> w]

\* The agent lists of a run: names all different, or the last one repeating
\* the first; every agent declares the same max_workers, as main() does.
AgentLists(w) ==
    { [i \in 1..NumAgents |-> Agent(i, w)],
      [i \in 1..NumAgents |-> Agent(IF i = NumAgents THEN 1 ELSE i, w)] }

Init ==
    /\ entry \in {"main", "direct"}
    /\ \E qs \in QuestionLists :
          \/ entry = "main" /\ input_markets = markets_deduplicated(get_markets(qs))
          \/ entry = "direct" /\ HasDuplicates(qs) /\ input_markets = get_markets(qs)
    /\ \E w \in 1..MaxWorkersBound : registered_agents \in AgentLists(w)
    /\ cache_path \in BOOLEAN
    /\ only_cached \in BOOLEAN
    /\ metric_fns_arg = <<>>
    /\ metric_fns = <<>>
    /\ report = None
    /\ disk \in IF cache_path THEN {None} \cup {Some(c) : c \in StoredCaches} ELSE {None}
    /\ predictions = EmptyCache
    /\ markets = <<>>
    /\ phase = "INIT"
    /\ agentIdx = 0
    /\ mainpc = "idle"
    /\ tasks = <<>>
    /\ raised = None
    /\ second = FALSE
    /\ turnCache = <<>>
    /\ lastAdded = None
    /\ inFlightAtRaise = {}
    /\ first = None

\* ------------------------------------------------------------------ helpers
\* Variant: the names are not checked.
NamesNotChecked(agents) == TRUE

\* len(set(a.agent_name for a in agents)) != len(agents)
NamesUnique(agents) == Cardinality({agents[i].agent_name : i \in 1..Len(agents)}) = Len(agents)

\* Variant: the cache file is never read.
LoadNothing(path, file) == EmptyCache

\* PredictionsCache.load(path) when the file exists, an empty cache otherwise.
LoadCache(path, file) == IF path /\ file # None THEN file[1] ELSE EmptyCache

AllAgentsCached(cache, agents, m) ==
    \A i \in 1..Len(agents) : has_market(cache, agents[i].agent_name, m.question)

\* Variant: any(...) in place of all(...).
SomeAgentCached(cache, agents, only, ms) ==
    IF only
    THEN SelectSeq(ms, LAMBDA m : \E i \in 1..Len(agents) :
                                      has_market(cache, agents[i].agent_name, m.question))
    ELSE ms

\* self.markets: the markets every agent has cached when only_cached, else all.
WorkingMarkets(cache, agents, only, ms) ==
    IF only THEN SelectSeq(ms, LAMBDA m : AllAgentsCached(cache, agents, m)) ELSE ms

\* Variant: cached markets are not filtered out.
RunEveryMarket(cache, agent, ms) == ms

\* markets_to_run: the markets of self.markets the agent has no prediction for.
markets_to_run(cache, agent, ms) ==
    SelectSeq(ms, LAMBDA m : ~has_market(cache, agent.agent_name, m.question))

\* The flag of evo_researcher.functions.cache; with TRUE the elapsed time is
\* not recorded.  The runs modelled here have it off.
ENABLE_CACHE == FALSE

\* What get_openai_callback and the clock report for one call: tokens used,
\* the cost the callback knows, the elapsed seconds.
CallReport(p) ==
    IF is_answered(p) THEN [total_tokens |-> 5, total_cost |-> 0, elapsed |-> 4]
    ELSE [total_tokens |-> 0, total_cost |-> 0, elapsed |-> 1]

\* get_llm_api_call_cost for the tokens of a call.
get_llm_api_call_cost(tokens) == 2 * tokens

\* get_prediction_result: the agent's prediction with time and cost filled in.
get_prediction_result(p) ==
    LET cb == CallReport(p)
        cost == IF cb.total_tokens > 0 /\ cb.total_cost = 0
                THEN get_llm_api_call_cost(cb.total_tokens) ELSE cb.total_cost
    IN [p EXCEPT !.time = IF ~ENABLE_CACHE THEN Some(cb.elapsed) ELSE None,
                 !.cost = Some(cost)]

Task(a, m) == [agent |-> a, market |-> m, state |-> "queued", result |-> None]

Finished == {"returned", "raised"}
Consumed == {"cached", "reported", "conflict"}
InFlight == {"queued", "running"}

TasksOf(a) == {i \in 1..Len(tasks) : tasks[i].agent = a}
Running(a) == {i \in TasksOf(a) : tasks[i].state = "running"}

\* Variant: a pool that starts every queued item at once.
NoWorkerLimit(a, i) ==
    /\ tasks[i].state = "queued"
    /\ \A j \in TasksOf(a) : j < i => tasks[j].state # "queued"

\* Variant: a pool that keeps one of its max_workers threads unused.
OneWorkerShort(a, i) ==
    /\ tasks[i].state = "queued"
    /\ \A j \in TasksOf(a) : j < i => tasks[j].state # "queued"
    /\ Cardinality(Running(a)) < registered_agents[a].max_workers - 1

\* A worker thread of the executor takes the oldest queued work item; the
\* executor has at most max_workers threads.
WorkerFree(a, i) ==
    /\ tasks[i].state = "queued"
    /\ \A j \in TasksOf(a) : j < i => tasks[j].state # "queued"
    /\ Cardinality(Running(a)) < registered_agents[a].max_workers

\* Variant: the with block is left as soon as no item is queued.
AllStarted(a) == \A i \in TasksOf(a) : tasks[i].state # "queued"

\* Variant: the loop over as_completed handles one future only.
FirstYielded(a) ==
    /\ \A i \in TasksOf(a) : tasks[i].state \notin InFlight
    /\ TasksOf(a) # {} => \E i \in TasksOf(a) : tasks[i].state \in Consumed

\* The loop over as_completed(futures) has yielded every future of the pool.
AllYielded(a) == \A i \in TasksOf(a) : tasks[i].state \in Consumed

\* Variant: shutdown(cancel_futures=True), queued items are dropped.
ShutdownCancelsQueued(a) == \A i \in TasksOf(a) : tasks[i].state # "running"

\* ThreadPoolExecutor.__exit__: shutdown(wait=True) returns when every
\* submitted work item has run.
ShutdownWaited(a) == \A i \in TasksOf(a) : tasks[i].state \notin InFlight

\* The with block of one agent is left normally: every future was yielded and
\* handled, and the executor has shut down.
PoolDrained(a) == AllYielded(a) /\ ShutdownWaited(a)

\* Variant: the cache is not saved after an add.
NeverSave(path) == "collect"

\* Lines 142-143: after an add, the cache is saved when a path is configured.
AfterAdd(path) == IF path THEN "save" ELSE "collect"

\* Variant: the results are joined to the markets by position, the n-th
\* future handled taking the question of the n-th market submitted.
QuestionBySubmission(i) ==
    LET mine == TasksOf(tasks[i].agent)
        handled == Cardinality({j \in mine : tasks[j].state \in Consumed})
        nth == CHOOSE j \in mine : Cardinality({x \in mine : x < j}) = handled
    IN tasks[nth].market.question

\* Line 136: market_question, prediction = future.result()
market_question(i) == tasks[i].result[1][1]

\* ------------------------------------------------------------------ actions
\* Benchmarker.__init__, lines 43-52: the names are checked, the cache loaded.
Construct ==
    /\ phase = "INIT"
    /\ IF ~NamesUnique(registered_agents)
       THEN /\ phase' = "CONFIG_ERROR"
            /\ raised' = Some("ValueError")
            /\ UNCHANGED predictions
       ELSE /\ phase' = "FILTERING"
            /\ predictions' = LoadCache(cache_path, disk)
            /\ UNCHANGED raised
    /\ UNCHANGED <<config, metric_fns, report, disk, markets, agentIdx, mainpc, tasks, second, history>>

\* Benchmarker.__init__, lines 54-82, and the call of run_agents.
FilterMarkets ==
    /\ phase = "FILTERING"
    /\ markets' = WorkingMarkets(predictions, registered_agents, only_cached, input_markets)
    /\ metric_fns' = RegisterMetricFns(metric_fns_arg)
    /\ phase' = "EVALUATING"
    /\ agentIdx' = 1
    /\ mainpc' = "submit"
    /\ UNCHANGED <<config, report, disk, predictions, tasks, raised, second, history>>

\* run_agents, lines 100-134: the agent's uncached markets are submitted.
SubmitPool ==
    /\ phase = "EVALUATING" /\ mainpc = "submit"
    /\ agentIdx <= Len(registered_agents)
    /\ LET todo == markets_to_run(predictions, registered_agents[agentIdx], markets)
       IN tasks' = tasks \o [i \in 1..Len(todo) |-> Task(agentIdx, todo[i])]
    /\ mainpc' = "collect"
    /\ turnCache' = Append(turnCache, DOMAIN predictions)
    /\ UNCHANGED <<config, metric_fns, report, disk, predictions, markets, phase, agentIdx, raised, second,
                   lastAdded, inFlightAtRaise, first>>

\* A worker thread starts get_prediction_result for a queued market.
StartTask(i) ==
    /\ phase = "EVALUATING"
    /\ WorkerFree(tasks[i].agent, i)
    /\ tasks' = [tasks EXCEPT ![i].state = "running"]
    /\ UNCHANGED <<config, metric_fns, report, disk, predictions, markets, phase, agentIdx, mainpc, raised, second, history>>

\* get_prediction_result returns (market.question, prediction).
TaskReturns(i) ==
    /\ tasks[i].state = "running"
    /\ \E p \in AgentOutputs(registered_agents[tasks[i].agent].agent_name, tasks[i].market.question) :
          tasks' = [tasks EXCEPT ![i].state = "returned",
                                 ![i].result = Some(<<tasks[i].market.question, get_prediction_result(p)>>)]
    /\ UNCHANGED <<config, metric_fns, report, disk, predictions, markets, phase, agentIdx, mainpc, raised, second, history>>

\* evaluate_research_predict raises; the future holds the exception.
TaskRaises(i) ==
    /\ tasks[i].state = "running"
    /\ tasks' = [tasks EXCEPT ![i].state = "raised"]
    /\ UNCHANGED <<config, metric_fns, report, disk, predictions, markets, phase, agentIdx, mainpc, raised, second, history>>

\* Lines 135-141: as_completed yields a future that returned; its prediction
\* is added under the returned question.
AddResult(i) ==
    /\ phase = "EVALUATING" /\ mainpc = "collect"
    /\ tasks[i].agent = agentIdx /\ tasks[i].state = "returned"
    /\ LET name == registered_agents[agentIdx].agent_name
           q == market_question(i)
           p == tasks[i].result[1][2]
       IN /\ ~has_market(predictions, name, q)
          /\ predictions' = CachePut(predictions, name, q, p)
          /\ lastAdded' = Some(<<name, q>>)
    /\ tasks' = [tasks EXCEPT ![i].state = "cached"]
    /\ mainpc' = AfterAdd(cache_path)
    /\ UNCHANGED <<config, metric_fns, report, disk, markets, phase, agentIdx, raised, second,
                   turnCache, inFlightAtRaise, first>>

\* PredictionsCache.add_prediction refuses a key it already holds.
AddConflict(i) ==
    /\ phase = "EVALUATING" /\ mainpc = "collect"
    /\ tasks[i].agent = agentIdx /\ tasks[i].state = "returned"
    /\ has_market(predictions, registered_agents[agentIdx].agent_name, market_question(i))
    /\ tasks' = [tasks EXCEPT ![i].state = "conflict"]
    /\ raised' = Some("CacheKeyConflict")
    /\ mainpc' = "drain"
    /\ inFlightAtRaise' = {j \in 1..Len(tasks) : tasks[j].state \in InFlight}
    /\ UNCHANGED <<config, metric_fns, report, disk, predictions, markets, phase, agentIdx, second,
                   turnCache, lastAdded, first>>

\* Lines 142-143: the whole cache is written to cache_path.
SaveCache ==
    /\ phase = "EVALUATING" /\ mainpc = "save"
    /\ disk' = save(predictions)
    /\ mainpc' = "collect"
    /\ UNCHANGED <<config, metric_fns, report, predictions, markets, phase, agentIdx, tasks, raised, second, history>>

\* Line 136: future.result() re-raises the exception of a failed task.
ResultRaises(i) ==
    /\ phase = "EVALUATING" /\ mainpc = "collect"
    /\ tasks[i].agent = agentIdx /\ tasks[i].state = "raised"
    /\ tasks' = [tasks EXCEPT ![i].state = "reported"]
    /\ raised' = Some("TaskFailure")
    /\ mainpc' = "drain"
    /\ inFlightAtRaise' = {j \in 1..Len(tasks) : tasks[j].state \in InFlight}
    /\ UNCHANGED <<config, metric_fns, report, disk, predictions, markets, phase, agentIdx, second,
                   turnCache, lastAdded, first>>

\* The loop over as_completed ends and the with block is left: next agent.
PoolExit ==
    /\ phase = "EVALUATING" /\ mainpc = "collect"
    /\ PoolDrained(agentIdx)
    /\ agentIdx' = agentIdx + 1
    /\ mainpc' = "submit"
    /\ UNCHANGED <<config, metric_fns, report, disk, predictions, markets, phase, tasks, raised, second, history>>

\* An exception leaves the with block: the executor is shut down, then the
\* exception leaves run_agents.
PoolExitRaising ==
    /\ phase = "EVALUATING" /\ mainpc = "drain"
    /\ ShutdownWaited(agentIdx)
    /\ phase' = "FAILED"
    /\ mainpc' = "idle"
    /\ UNCHANGED <<config, metric_fns, report, disk, predictions, markets, agentIdx, tasks, raised, second, history>>

\* The loop over registered_agents is exhausted: run_agents returns.
RunAgentsReturn ==
    /\ phase = "EVALUATING" /\ mainpc = "submit"
    /\ agentIdx > Len(registered_agents)
    /\ phase' = "DONE"
    /\ mainpc' = "idle"
    /\ UNCHANGED <<config, metric_fns, report, disk, predictions, markets, agentIdx, tasks, raised, second, history>>

FirstRun == Some([cache |-> predictions,
                  metrics |-> compute_metrics(metric_fns, predictions, registered_agents, markets)])

\* run_agents is called a second time on the same Benchmarker.
RunAgentsAgain ==
    /\ phase = "DONE" /\ ~second
    /\ second' = TRUE
    /\ first' = FirstRun
    /\ phase' = "EVALUATING"
    /\ agentIdx' = 1
    /\ mainpc' = "submit"
    /\ tasks' = <<>>
    /\ turnCache' = <<>>
    /\ UNCHANGED <<config, metric_fns, report, disk, predictions, markets, raised, lastAdded, inFlightAtRaise>>

\* The program is started a second time with the same arguments and the cache
\* file the first run left.
RunProgramAgain ==
    /\ phase = "DONE" /\ ~second
    /\ cache_path
    /\ second' = TRUE
    /\ first' = FirstRun
    /\ phase' = "INIT"
    /\ predictions' = EmptyCache
    /\ markets' = <<>>
    /\ agentIdx' = 0
    /\ tasks' = <<>>
    /\ turnCache' = <<>>
    /\ lastAdded' = None
    /\ metric_fns' = <<>>
    /\ UNCHANGED <<config, report, disk, mainpc, raised, inFlightAtRaise>>

Next ==
    \/ Construct
    \/ FilterMarkets
    \/ SubmitPool
    \/ \E i \in 1..Len(tasks) : StartTask(i)
    \/ \E i \in 1..Len(tasks) : TaskReturns(i)
    \/ \E i \in 1..Len(tasks) : TaskRaises(i)
    \/ \E i \in 1..Len(tasks) : AddResult(i)
    \/ \E i \in 1..Len(tasks) : AddConflict(i)
    \/ SaveCache
    \/ \E i \in 1..Len(tasks) : ResultRaises(i)
    \/ PoolExit
    \/ PoolExitRaising
    \/ RunAgentsReturn
    \/ RunAgentsAgain
    \/ RunProgramAgain

Spec == Init /\ [][Next]_vars

\* Every evaluation returns a prediction, and threads that can take a step
\* are scheduled.
NextReturning ==
    \/ Construct
    \/ FilterMarkets
    \/ SubmitPool
    \/ \E i \in 1..Len(tasks) : StartTask(i)
    \/ \E i \in 1..Len(tasks) : TaskReturns(i)
    \/ \E i \in 1..Len(tasks) : AddResult(i)
    \/ \E i \in 1..Len(tasks) : AddConflict(i)
    \/ SaveCache
    \/ PoolExit
    \/ PoolExitRaising
    \/ RunAgentsReturn
    \/ RunAgentsAgain
    \/ RunProgramAgain

\* The cache files of the runs checked for termination: none, or one written
\* for the first agents and the first questions.
PrefixCaches ==
    { [k \in (1..a) \X (1..q) |-> StoredPrediction(k[1], k[2])] :
        a \in AgentNames, q \in Questions }

LiveInit == Init /\ (disk = None \/ disk[1] \in PrefixCaches)

LiveSpec == LiveInit /\ [][NextReturning]_vars /\ WF_vars(NextReturning)

\* ------------------------------------------------------------------ reporting
RunEnded == phase \in {"DONE", "FAILED"}

\* The reporting functions applied to a Benchmarker whose run has ended.
\* The predictions a cache may hold for a key: not evaluated, skipped, failed,
\* answered (twice), an outcome without an evaluation, and an outcome with an
\* evaluation that says not predictable.
PredictionShapes(name, q) ==
    LET src == <<"old", name, q>>
        yes == Some([is_predictable |-> TRUE])
        no == Some([is_predictable |-> FALSE])
    IN << Prediction(None, None, None, None, src),
          Prediction(no, None, Some(0), Some(0), src),
          Prediction(yes, None, Some(2), Some(3), src),
          Prediction(yes, Some(OutcomePrediction(70, 70, None)), Some(2), Some(3), src),
          Prediction(yes, Some(OutcomePrediction(50, 60, Some(40))), Some(0), None, src),
          Prediction(None, Some(OutcomePrediction(30, 60, None)), None, None, src),
          Prediction(no, Some(OutcomePrediction(70, 60, None)), None, None, src) >>

\* The caches of k agents over n questions: the first agent holds any shape or
\* nothing for a question, the others hold stored predictions, for every
\* question or for all but the first.
ReportCaches(n, k) ==
    { [key \in {<<1, q>> : q \in {x \in 1..n : row[x] # 0}}
                  \cup ((2..k) \X (IF short THEN 2..n ELSE 1..n)) |->
          IF key[1] = 1 THEN PredictionShapes(1, key[2])[row[key[2]]]
          ELSE StoredPrediction(key[1], key[2])] :
        row \in [1..n -> 0..Len(PredictionShapes(1, 1))], short \in BOOLEAN }

ReportInit ==
    /\ entry = "direct"
    /\ \E n \in 0..MaxMarkets :
          /\ markets \in {[i \in 1..n |-> Market(i, p[i])] : p \in [1..n -> {50, 60}]}
          /\ \E k \in 1..NumAgents :
                /\ registered_agents = [i \in 1..k |-> Agent(i, 1)]
                /\ predictions \in ReportCaches(n, k)
    /\ input_markets = markets
    /\ cache_path = FALSE
    /\ only_cached = FALSE
    /\ metric_fns_arg \in CallerMetricFns
    /\ metric_fns = RegisterMetricFns(metric_fns_arg)
    /\ report = None
    /\ disk = None
    /\ IF \E a \in 1..Len(registered_agents) : Missing(predictions, registered_agents[a], markets)
       THEN phase = "FAILED" /\ raised = Some("TaskFailure")
       ELSE phase = "DONE" /\ raised = None
    /\ agentIdx = Len(registered_agents) + 1
    /\ mainpc = "idle"
    /\ tasks = <<>>
    /\ second = FALSE
    /\ turnCache = <<>>
    /\ lastAdded = None
    /\ inFlightAtRaise = {}
    /\ first = None

ComputeMetrics ==
    /\ RunEnded
    /\ report' = Some([op |-> "compute_metrics",
                  out |-> compute_metrics(metric_fns, predictions, registered_agents, markets)])
    /\ UNCHANGED <<config, metric_fns, disk, predictions, markets, phase, agentIdx, mainpc,
                   tasks, raised, second, history>>

GetMarketsSummary ==
    /\ RunEnded
    /\ report' = Some([op |-> "get_markets_summary",
                  out |-> get_markets_summary(predictions, registered_agents, markets)])
    /\ UNCHANGED <<config, metric_fns, disk, predictions, markets, phase, agentIdx, mainpc,
                   tasks, raised, second, history>>

ComputeExpectedReturnsSummary ==
    /\ RunEnded
    /\ report' = Some([op |-> "compute_expected_returns_summary",
                  out |-> compute_expected_returns_summary(predictions, registered_agents, markets)])
    /\ UNCHANGED <<config, metric_fns, disk, predictions, markets, phase, agentIdx, mainpc,
                   tasks, raised, second, history>>

ReportNext ==
    \/ ComputeMetrics
    \/ GetMarketsSummary
    \/ ComputeExpectedReturnsSummary

ReportSpec == ReportInit /\ [][ReportNext]_vars

\* ------------------------------------------------------------------ properties
Name(a) == registered_agents[a].agent_name
KeyOf(i) == <<Name(tasks[i].agent), tasks[i].market.question>>

\* Number of calls of evaluate_research_predict by agent a for market m.
Evaluations(a, m) ==
    Cardinality({i \in 1..Len(tasks) :
                    tasks[i].agent = a /\ tasks[i].market = m /\ tasks[i].state # "queued"})

DiskCache == IF disk = None THEN EmptyCache ELSE disk[1]

\* C1: when run_agents has returned normally, the cache has an entry for every
\* registered agent and every market of the working set.
Completeness ==
    phase = "DONE" =>
        \A a \in 1..Len(registered_agents), i \in 1..Len(markets) :
            has_market(predictions, Name(a), markets[i].question)

WitnessCompleteness ==
    /\ phase = "DONE" /\ ~second
    /\ Len(markets) = MaxMarkets
    /\ turnCache[1] # {}
    /\ \E i \in 1..Len(tasks) : tasks[i].agent = 1
    /\ \E i \in 1..Len(tasks) : tasks[i].agent = NumAgents

\* C2: a second run against the cache the first run left evaluates nothing,
\* adds no entry, and compute_metrics gives what it gave after the first run.
Idempotence ==
    second =>
        /\ \A a \in 1..Len(registered_agents), i \in 1..Len(markets) :
              Evaluations(a, markets[i]) = 0
        /\ tasks = <<>>
        /\ phase \in {"EVALUATING", "DONE"} => predictions = first[1].cache
        /\ phase = "DONE" =>
              compute_metrics(metric_fns, predictions, registered_agents, markets) = first[1].metrics

WitnessIdempotence ==
    /\ second /\ phase = "DONE"
    /\ Len(markets) = MaxMarkets
    /\ first[1].metrics.raised = None
    /\ \E k \in DOMAIN predictions : predictions[k].src[1] = "new"
    /\ \E k \in DOMAIN predictions : predictions[k].src[1] = "old"

\* C3: an agent whose turn has begun evaluates a market of the working set at
\* most once; never when the key was cached as the turn began; exactly once,
\* when the agent's pool has ended, for a key that was not cached.
ExactlyOnce ==
    /\ \A i \in 1..Len(tasks) : tasks[i].agent <= Len(turnCache)
    /\ \A a \in 1..Len(turnCache), i \in 1..Len(markets) :
          LET n == Evaluations(a, markets[i])
              cached == <<Name(a), markets[i].question>> \in turnCache[a]
          IN /\ n <= 1
             /\ cached => n = 0
             /\ (~cached /\ (a < agentIdx \/ RunEnded)) => n = 1

WitnessExactlyOnce ==
    /\ phase = "DONE" /\ ~second
    /\ \E a \in 1..Len(turnCache), i, j \in 1..Len(markets) :
          /\ <<Name(a), markets[i].question>> \in turnCache[a]
          /\ <<Name(a), markets[j].question>> \notin turnCache[a]
          /\ Evaluations(a, markets[i]) = 0
          /\ Evaluations(a, markets[j]) = 1

\* C4: with every evaluation returning and fair scheduling, a run started by
\* main moves only forward through INIT, FILTERING, EVALUATING, DONE, and
\* reaches DONE with the loop over the agents exhausted.
PhaseStep ==
    (second' = second /\ phase' # phase) =>
        <<phase, phase'>> \in {<<"INIT", "FILTERING">>, <<"FILTERING", "EVALUATING">>,
                               <<"EVALUATING", "DONE">>, <<"INIT", "CONFIG_ERROR">>,
                               <<"EVALUATING", "FAILED">>}

Termination ==
    /\ [](phase = "DONE" => agentIdx > Len(registered_agents))
    /\ [][PhaseStep]_vars
    /\ [](entry = "main" => phase # "FAILED")
    /\ (entry = "main" /\ phase \in {"FILTERING", "EVALUATING"}) ~> (phase = "DONE")

WitnessTermination ==
    /\ phase = "DONE" /\ entry = "main"
    /\ Len(tasks) > registered_agents[1].max_workers
    /\ \A i \in 1..Len(tasks) : tasks[i].state = "cached"

\* C5: when a task's failure has left run_agents, every task that was queued
\* or running at the moment the failure was raised has run to its end.
FailureIsolation ==
    (phase = "FAILED" /\ raised = Some("TaskFailure")) =>
        \A i \in inFlightAtRaise : tasks[i].state \in Finished

WitnessFailureIsolation ==
    /\ phase = "FAILED" /\ raised = Some("TaskFailure")
    /\ \E i \in inFlightAtRaise : tasks[i].state = "returned"

\* C6: when run_agents has ended, every submitted task has its prediction in
\* the cache or its failure was raised to the caller.
NoTaskDropped ==
    RunEnded => \A i \in 1..Len(tasks) : tasks[i].state \in Consumed

\* C7: tasks of two agents are never queued or running at the same time, and
\* a task of a later agent exists only when every task of an earlier agent has
\* finished and its result is in the cache.
StrictAgentOrdering ==
    \A i, j \in 1..Len(tasks) :
        /\ (tasks[i].state \in InFlight /\ tasks[j].state \in InFlight) =>
              tasks[i].agent = tasks[j].agent
        /\ tasks[i].agent < tasks[j].agent =>
              /\ tasks[i].state = "cached"
              /\ KeyOf(i) \in DOMAIN predictions

WitnessStrictAgentOrdering ==
    \E i, j \in 1..Len(tasks) :
        /\ tasks[i].agent < tasks[j].agent
        /\ tasks[j].state = "running"

\* C8: the number of tasks of an agent that run at the same time is at most
\* the agent's max_workers.
BoundedConcurrency ==
    \A a \in 1..Len(registered_agents) :
        Cardinality(Running(a)) <= registered_agents[a].max_workers

WitnessBoundedConcurrency ==
    \E a \in 1..Len(registered_agents) :
        /\ Cardinality(Running(a)) = registered_agents[a].max_workers
        /\ \E i \in TasksOf(a) : tasks[i].state = "queued"

\* C9: with the markets deduplicated by main, no two tasks of an agent have
\* the same key, add_prediction is never called for a key the cache holds, and
\* no entry of the cache is changed or removed by a run.
NoConflictNow ==
    entry = "main" =>
        /\ raised # Some("CacheKeyConflict")
        /\ \A i, j \in 1..Len(tasks) : (i # j /\ tasks[i].agent = tasks[j].agent) => KeyOf(i) # KeyOf(j)
        /\ \A i \in 1..Len(tasks) :
              tasks[i].state \in InFlight \cup Finished => KeyOf(i) \notin DOMAIN predictions

EntriesKept ==
    \/ entry # "main"
    \/ phase' = "INIT"
    \/ \A k \in DOMAIN predictions : k \in DOMAIN predictions' /\ predictions'[k] = predictions[k]

NoKeyConflict == []NoConflictNow /\ [][EntriesKept]_vars

WitnessNoKeyConflict ==
    /\ entry = "main" /\ phase = "DONE" /\ ~second
    /\ \E i \in 1..Len(input_markets) : input_markets[i].p_yes # SourcePYes(i)
    /\ turnCache[1] # {}
    /\ \E i \in 1..Len(tasks) : tasks[i].state = "cached"

\* C10: with a cache path, the cache file holds every prediction of the cache
\* except at most the one added last, and that one too once its save is done;
\* an entry of the file is never lost or changed.
PersistedNow ==
    (cache_path /\ phase \in {"EVALUATING", "DONE", "FAILED"}) =>
        \A k \in DOMAIN predictions :
            (Some(k) # lastAdded \/ mainpc # "save") =>
                k \in DOMAIN DiskCache /\ DiskCache[k] = predictions[k]

FileKept ==
    \A k \in DOMAIN DiskCache : k \in DOMAIN DiskCache' /\ DiskCache'[k] = DiskCache[k]

CrashSafePersistence == []PersistedNow /\ [][FileKept]_vars

WitnessCrashSafePersistence ==
    /\ cache_path /\ mainpc = "save"
    /\ \E k \in DOMAIN DiskCache : DiskCache[k].src[1] = "new"
    /\ \E k \in DOMAIN DiskCache : DiskCache[k].src[1] = "old"
    /\ lastAdded # None /\ lastAdded[1] \notin DOMAIN DiskCache

\* C11: with only_cached, the working market set is the input markets, in
\* input order, for which every registered agent had a prediction in the cache
\* at construction; without it, the working set is the input market list.
ConstructionKeys == IF turnCache # <<>> THEN turnCache[1] ELSE DOMAIN predictions

KeptInputs ==
    {i \in 1..Len(input_markets) :
        \A a \in 1..Len(registered_agents) :
            <<Name(a), input_markets[i].question>> \in ConstructionKeys}

OnlyCachedFiltering ==
    phase \in {"EVALUATING", "DONE", "FAILED"} =>
        IF only_cached
        THEN /\ Len(markets) = Cardinality(KeptInputs)
             /\ \A i \in KeptInputs :
                   markets[Cardinality({j \in KeptInputs : j <= i})] = input_markets[i]
        ELSE markets = input_markets

WitnessOnlyCachedFiltering ==
    /\ only_cached /\ phase = "DONE"
    /\ 0 < Len(markets) /\ Len(markets) < Len(input_markets)
    /\ \E k \in DOMAIN predictions : \E i \in 1..Len(input_markets) :
          k[2] = input_markets[i].question /\ i \notin KeptInputs

\* C12: with two agents of one name, construction raises before anything else
\* happens: no cache is loaded, no market filtered, no task submitted, and the
\* cache file is not written.
DuplicateNames ==
    \E i, j \in 1..Len(registered_agents) :
        i # j /\ registered_agents[i].agent_name = registered_agents[j].agent_name

FailedFast ==
    DuplicateNames =>
        /\ phase \in {"INIT", "CONFIG_ERROR"}
        /\ phase = "CONFIG_ERROR" => raised = Some("ValueError")
        /\ predictions = EmptyCache
        /\ markets = <<>>
        /\ tasks = <<>>

NothingPersisted == DuplicateNames => disk' = disk

DuplicateNamesFailFast == []FailedFast /\ [][NothingPersisted]_vars

WitnessDuplicateNamesFailFast ==
    /\ DuplicateNames /\ phase = "CONFIG_ERROR"
    /\ disk # None /\ DOMAIN disk[1] # {}
    /\ Len(input_markets) > 0
\* The predictions of agent a for the working markets, when the cache has all.
Complete(a) == ~Missing(predictions, registered_agents[a], markets)
Row(a) == ordered_predictions(predictions, registered_agents[a], markets)
Reported(op) == report # None /\ report[1].op = op
Output == report[1].out

\* C13: when no prediction of the input is answered, the empty input included,
\* each answered-only metric returns None and raises nothing.
AnsweredOnlyMetrics ==
    {"MSE for p_yes", "Mean confidence", "% within +-0.05", "% within +-0.1", "% within +-0.2",
     "% correct outcome", "confidence/p_yes error correlation", "Mean info_utility"}

NoneAnswered(a) == Complete(a) /\ \A i \in 1..Len(markets) : ~is_answered(Row(a)[i])

AnsweredOnlyUndefined ==
    /\ \A name \in AnsweredOnlyMetrics : predefined_metric_fns(name, <<>>, <<>>) = Null
    /\ \A a \in 1..Len(registered_agents) :
          NoneAnswered(a) =>
              /\ \A name \in AnsweredOnlyMetrics :
                    predefined_metric_fns(name, Row(a), markets) = Null
              /\ Reported("compute_metrics") /\ Output.raised = None =>
                    \A name \in AnsweredOnlyMetrics : Output.table[name][a] = Null

WitnessAnsweredOnlyUndefined ==
    /\ Reported("compute_metrics") /\ Output.raised = None
    /\ Len(markets) = MaxMarkets
    /\ NoneAnswered(1)
    /\ Output.table["Mean confidence"][1] = Null
    /\ Output.table["Mean confidence"][Len(registered_agents)].kind = "float"

\* C14: a built-in metric whose denominator is zero returns None, never an
\* error: the two proportions on an empty prediction list, mean cost and mean
\* time when no prediction carries a cost or a time.
ZeroDenominatorIsNull ==
    \A a \in 1..Len(registered_agents) :
        Complete(a) =>
            /\ Len(Row(a)) = 0 =>
                  /\ predefined_metric_fns("Proportion answerable", Row(a), markets) = Null
                  /\ predefined_metric_fns("Proportion answered", Row(a), markets) = Null
            /\ (\A i \in 1..Len(markets) : Row(a)[i].cost = None) =>
                  predefined_metric_fns("Mean cost ($)", Row(a), markets) = Null
            /\ (\A i \in 1..Len(markets) : Row(a)[i].time = None) =>
                  predefined_metric_fns("Mean time (s)", Row(a), markets) = Null
            /\ Reported("compute_metrics") => Output.raised # Some("ZeroDivisionError")

\* The cached predictions of the working set, when no agent misses one.
AllComplete == \A a \in 1..Len(registered_agents) : Complete(a)
Cells == {<<a, i>> \in (1..Len(registered_agents)) \X (1..Len(markets)) : Complete(a)}
Evaluated(p) == p.evaluation # None
Predictable(p) == Evaluated(p) /\ p.evaluation[1].is_predictable
Rendered == Reported("get_markets_summary") /\ Output.raised = None

ExpectedLabel(p) ==
    CASE ~Evaluated(p) /\ ~is_answered(p) -> Label("N/A")
      [] Evaluated(p) /\ ~Predictable(p) -> Label("S")
      [] Predictable(p) /\ ~is_answered(p) -> Label("F")
      [] Predictable(p) /\ is_answered(p) -> Number(p.outcome_prediction[1].p_yes)
      [] ~Evaluated(p) /\ is_answered(p) -> Label("should_not_happen")

RuleReturns(p, m) ==
    IF p.outcome_prediction = None THEN Null
    ELSE IF p.outcome_prediction[1].p_yes > 50
         THEN Float(100 * (20 * m.p_yes - 10 * 100), 10 * 100)
         ELSE Float(100 * (20 * (100 - m.p_yes) - 10 * 100), 10 * 100)

ExpectedReturnsRule ==
    /\ calculate_expected_returns(PredictionShapes(1, 1)[4], Market(1, 60)) = Float(20, 1)
    /\ \A c \in Cells :
          LET p == Row(c[1])[c[2]]
              m == markets[c[2]]
          IN /\ calculate_expected_returns(p, m) = Null <=> ~is_answered(p)
             /\ calculate_expected_returns(p, m) = RuleReturns(p, m)
             /\ Reported("compute_expected_returns_summary") /\ Output.raised = None =>
                   Output.per_market[c[2]].returns[c[1]] = RuleReturns(p, m)

WitnessExpectedReturnsRule ==
    /\ Reported("compute_expected_returns_summary") /\ Output.raised = None
    /\ \E i, j \in 1..Len(markets) :
          /\ markets[i].p_yes = 60 /\ PredictionShapes(1, i)[4] = Row(1)[i]
          /\ Output.per_market[i].returns[1] = Float(20, 1)
          /\ markets[j].p_yes = 60 /\ PredictionShapes(1, j)[5] = Row(1)[j]
          /\ Output.per_market[j].returns[1] = Float(-20, 1)

FirstIncomplete == CHOOSE a \in 1..Len(registered_agents) :
                       ~Complete(a) /\ \A b \in 1..(a - 1) : Complete(b)

UnrenderedBefore(a) ==
    \E b \in 1..(a - 1), i \in 1..Len(markets) :
        ~Evaluated(Row(b)[i]) /\ is_answered(Row(b)[i])

Registered == phase \in {"EVALUATING", "DONE", "FAILED"}

CallerOverridesBuiltIn ==
    Registered =>
        /\ DOMAIN metric_fns = MetricNames \cup DOMAIN metric_fns_arg
        /\ \A n \in DOMAIN metric_fns_arg : metric_fns[n] = metric_fns_arg[n]
        /\ Reported("compute_metrics") /\ Output.raised = None =>
              \A n \in DOMAIN metric_fns_arg, a \in 1..Len(registered_agents) :
                  Output.table[n][a] = caller_metric(Row(a), markets)

\* C19: cache additions and persists happen one at a time: a persist writes
\* the in-memory cache as the add before it left it, no add happens between an
\* add and its persist, and outside that window the file is the cache.
FileIsCacheAfterAdd ==
    (cache_path /\ lastAdded # None /\ mainpc # "save") => disk = Some(predictions)

OneWriteAtATime ==
    /\ disk' # disk =>
          mainpc = "save" /\ predictions' = predictions /\ disk' = Some(predictions)
    /\ mainpc = "save" =>
          predictions' = predictions /\ lastAdded' = lastAdded /\ mainpc' \in {"save", "collect"}
    /\ (mainpc # "save" /\ mainpc' = "save") =>
          /\ lastAdded' # None /\ lastAdded'[1] \notin DOMAIN predictions
          /\ DOMAIN predictions' = DOMAIN predictions \cup {lastAdded'[1]}
          /\ \A k \in DOMAIN predictions : predictions'[k] = predictions[k]
          /\ disk' = disk

SerializedCacheWrites == []FileIsCacheAfterAdd /\ [][OneWriteAtATime]_vars

WitnessSerializedCacheWrites ==
    /\ mainpc = "save" /\ disk # None /\ disk[1] # predictions
    /\ \E k \in DOMAIN disk[1] : disk[1][k].src[1] = "new"
    /\ \E i \in 1..Len(tasks) : tasks[i].agent = agentIdx /\ tasks[i].state = "returned"

\* C20: whatever the order of completion, the prediction the cache holds under
\* (agent_name, question) is the one this agent's evaluate_research_predict
\* produced for that question, or the one the cache file held for that key.
JoinByKey ==
    \A k \in DOMAIN predictions :
        \/ predictions[k] = StoredPrediction(k[1], k[2])
        \/ \E p \in AgentOutputs(k[1], k[2]) : predictions[k] = get_prediction_result(p)

WitnessJoinByKey ==
    \E i, j \in 1..Len(tasks) :
        /\ i < j /\ tasks[i].agent = tasks[j].agent
        /\ tasks[j].state = "cached" /\ tasks[i].state \in {"running", "returned"}
        /\ predictions[KeyOf(j)].src = <<"new", Name(tasks[j].agent), tasks[j].market.question>>

\* C21, as stated: mean cost (mean time) is the sum of the costs (times) that
\* are not None divided by their number; a cost or time of 0 counts in the
\* denominator, and the result is None only when every cost (time) is None.
MeanOfPresent(xs) ==
    LET present == SelectSeq(xs, LAMBDA x : x # None)
    IN IF present = <<>> THEN Null
       ELSE Float(Sum([i \in 1..Len(present) |-> present[i][1]]), Len(present))

MeanOverNonNull ==
    \A a \in 1..Len(registered_agents) :
        Complete(a) =>
            LET costs == [i \in 1..Len(markets) |-> Row(a)[i].cost]
                times == [i \in 1..Len(markets) |-> Row(a)[i].time]
            IN /\ _compute_mean_cost(Row(a), markets) = MeanOfPresent(costs)
               /\ _compute_mean_time(Row(a), markets) = MeanOfPresent(times)
               /\ Reported("compute_metrics") /\ Output.raised = None =>
                     /\ Output.table["Mean cost ($)"][a] = MeanOfPresent(costs)
                     /\ Output.table["Mean time (s)"][a] = MeanOfPresent(times)

====
